---- MODULE Spec2Model ----
(***************************************************************************)
(* do_dyndns: keeps the A / AAAA record of a DigitalOcean domain in step   *)
(* with the machine's public addresses.                                    *)
(*                                                                         *)
(* The model follows src/main.rs (main, dyndns, handle_record,             *)
(* create_record, update_record), src/api.rs (the requests ApiClient       *)
(* sends) and src/ip.rs (get_ips, try_get_ip).  The provider and the       *)
(* IP-echo services are the environment: their answers are chosen          *)
(* nondeterministically.                                                   *)
(***************************************************************************)
EXTENDS Integers, Sequences, FiniteSets, TLC

(***************************************************************************)
(* Bounds of the model.                                                    *)
(***************************************************************************)
\* addresses per family the echo services can report
NumAddrs == 2
\* records the provider holds before the program starts
MaxRemote == 2
\* poll cycles explored
MaxCycles == 2

(***************************************************************************)
(* Program constants.                                                      *)
(***************************************************************************)
\* #[clap(default_value_t = 60)] ttl
DefaultTtl == 60
\* #[clap(default_value_t = 300)] sleep_interval
DefaultSleepInterval == 300
\* Some(200): per_page of the list request
PerPage == 200

\* Option<T>: None is the empty tuple, Some(x) the one-element tuple
None == << >>
Some(x) == <<x>>

Kinds == {"A", "AAAA"}

\* static PROVIDERS: [&str; 2]
PROVIDERS == <<"https://ifconfig.me", "https://ifconfig.co">>

\* the positional argument `domain`
Domain == "example.com"

\* record names: the apex and one subdomain label
Names == {"@", "www"}

\* ttl values a record can carry
Ttls == {DefaultTtl, 2 * DefaultTtl}

\* An Ipv4Addr / Ipv6Addr is modelled by a small number (its last group).
Addrs == 1..NumAddrs

\* Ipv4Addr::to_string / Ipv6Addr::to_string
Ipv4ToString(a) == "198.51.100." \o ToString(a)
Ipv6ToString(a) == "2001:db8::" \o ToString(a)

AddrToString(kind, a) == IF kind = "A" THEN Ipv4ToString(a) ELSE Ipv6ToString(a)

\* str::parse::<Ipv4Addr>: the address a line spells, None when it spells none
ParseIpv4(line) ==
    IF \E a \in Addrs : Ipv4ToString(a) = line
    THEN Some(CHOOSE a \in Addrs : Ipv4ToString(a) = line)
    ELSE None

\* str::parse::<Ipv6Addr>
ParseIpv6(line) ==
    IF \E a \in Addrs : Ipv6ToString(a) = line
    THEN Some(CHOOSE a \in Addrs : Ipv6ToString(a) = line)
    ELSE None

VARIABLES
    args,        \* struct Args, as parsed from the command line
    token,       \* whether DIGITALOCEAN_TOKEN is set
    pc,          \* where main / dyndns stands
    last_ipv4,   \* main's last_ipv4: Option<Ipv4Addr>
    last_ipv6,   \* main's last_ipv6: Option<Ipv6Addr>
    ipv4,        \* dyndns' ipv4, the address discovered in this cycle
    ipv6,        \* dyndns' ipv6
    remote,      \* the provider's domain records
    calls,       \* requests sent to the provider in the current cycle
    result,      \* per kind: how handle_record ended in the current cycle
    pre,         \* per kind: the provider's records when handle_record was called
    post,        \* per kind: the provider's records when handle_record returned
    old,         \* per kind: last_ipvN when the current cycle started
    prev,        \* per kind: the address discovered in the previous cycle
    error,       \* the Err dyndns returned in the current cycle, or "Ok"
    cycle,       \* number of the current cycle
    echo,        \* get_ips on its own: what the PROVIDERS answer, per family
    asked        \* get_ips on its own: the <<family, provider>> requests it sent

vars == <<args, token, pc, last_ipv4, last_ipv6, ipv4, ipv6, remote, calls,
          result, pre, post, old, prev, error, cycle, echo, asked>>

(***************************************************************************)
(* src/api.rs: the requests ApiClient sends.                               *)
(***************************************************************************)
\* ApiClient::get_records(domain, per_page, kind, name): the GET and its query
ApiClient_get_records(per_page, kind, name) ==
    [op |-> "GET", per_page |-> per_page, type |-> kind, name |-> name]

\* ApiClient::update_record(domain, id, kind, name, data, ttl): the PUT body
ApiClient_update_record(id, kind, name, data, ttl) ==
    [op |-> "PUT", id |-> id, name |-> name, type |-> kind, data |-> data, ttl |-> ttl]

\* (mutant) the POST body with name and kind exchanged
ApiClient_create_record_exchanged(name, kind, data, ttl) ==
    [op |-> "POST", name |-> kind, type |-> name, data |-> data, ttl |-> ttl]

\* ApiClient::create_record(domain, name, kind, data, ttl): the POST body
ApiClient_create_record(name, kind, data, ttl) ==
    [op |-> "POST", name |-> name, type |-> kind, data |-> data, ttl |-> ttl]

(***************************************************************************)
(* The provider (environment): struct DomainRecord and what the API does   *)
(* with a request it accepts.                                              *)
(***************************************************************************)
\* struct DomainRecord { id, name, data, ttl, kind }
DomainRecord(id, name, data, ttl, kind) ==
    [id |-> id, name |-> name, data |-> data, ttl |-> ttl, kind |-> kind]

\* the fully qualified name the provider's name filter compares against
Fqdn(name) == IF name = "@" THEN Domain ELSE name \o "." \o Domain

\* The records a successful list request returns.  The type filter is exact;
\* the name filter is best effort (filtered = FALSE: it was not applied).
ProviderList(records, req, filtered) ==
    {r \in records : r.kind = req.type /\ (filtered => Fqdn(r.name) = req.name)}

\* the id the provider gives the next record
ProviderNewId(records) ==
    IF records = {} THEN 1
    ELSE 1 + (CHOOSE i \in {r.id : r \in records} : \A r \in records : r.id <= i)

\* the provider's records after it has carried out a write request
ProviderApply(records, req) ==
    IF req.op = "POST"
    THEN records \cup {DomainRecord(ProviderNewId(records), req.name, req.data, req.ttl, req.type)}
    ELSE IF req.op = "PUT"
    THEN {IF r.id = req.id
          THEN DomainRecord(r.id, req.name, req.data, req.ttl, req.type)
          ELSE r : r \in records}
    ELSE records

(***************************************************************************)
(* src/ip.rs: address discovery.                                           *)
(***************************************************************************)
\* address.parse::<Addr>() of try_get_ip::<Addr>, Addr the family's type
Parse(family, line) == IF family = "ipv4" THEN ParseIpv4(line) ELSE ParseIpv6(line)

\* What an echo service answers to one request: a transport failure
\* (ok = FALSE) or a body, given as its lines.
Response(ok, body) == [ok |-> ok, body |-> body]

\* (mutant) try_get_ip returning the last line that parses
try_get_ip_last(family, response) ==
    IF ~response.ok THEN None
    ELSE LET hits == {i \in 1..Len(response.body) : Parse(family, response.body[i]) # None}
         IN  IF hits = {} THEN None
             ELSE Parse(family, response.body[CHOOSE i \in hits : \A j \in hits : i >= j])

\* try_get_ip::<Addr>: Err on a transport failure, else the first line that
\* parses, else None.  get_ips treats Err and Ok(None) alike, so both are None.
try_get_ip(family, response) ==
    IF ~response.ok THEN None
    ELSE LET hits == {i \in 1..Len(response.body) : Parse(family, response.body[i]) # None}
         IN  IF hits = {} THEN None
             ELSE Parse(family, response.body[CHOOSE i \in hits : \A j \in hits : i <= j])

\* (mutant) the loop asking every provider for every wanted family until
\* all are found, without the ipvN.is_none() tests
RECURSIVE get_ips_from_rescan(_, _, _, _, _, _, _, _)
get_ips_from_rescan(i, get_ipv4, get_ipv6, resp4, resp6, v4, v6, requests) ==
    IF i > Len(PROVIDERS)
    THEN [ipv4 |-> v4, ipv6 |-> v6, requests |-> requests]
    ELSE LET t4   == try_get_ip("ipv4", resp4[i])
             n4   == IF get_ipv4 /\ v4 = None THEN t4 ELSE v4
             t6   == try_get_ip("ipv6", resp6[i])
             n6   == IF get_ipv6 /\ v6 = None THEN t6 ELSE v6
             reqs == requests
                       \o (IF get_ipv4 THEN << <<"ipv4", PROVIDERS[i]>> >> ELSE << >>)
                       \o (IF get_ipv6 THEN << <<"ipv6", PROVIDERS[i]>> >> ELSE << >>)
         IN  IF (get_ipv4 = (n4 # None)) /\ (get_ipv6 = (n6 # None))
             THEN [ipv4 |-> n4, ipv6 |-> n6, requests |-> reqs]
             ELSE get_ips_from_rescan(i + 1, get_ipv4, get_ipv6, resp4, resp6, n4, n6, reqs)

\* The loop of get_ips from provider i on.  resp4[i] / resp6[i] is what
\* PROVIDERS[i] answers over the IPv4 / IPv6 transport; requests collects the
\* <<family, provider>> pairs asked so far.
RECURSIVE get_ips_from(_, _, _, _, _, _, _, _)
get_ips_from(i, get_ipv4, get_ipv6, resp4, resp6, v4, v6, requests) ==
    IF i > Len(PROVIDERS)
    THEN [ipv4 |-> v4, ipv6 |-> v6, requests |-> requests]
    ELSE LET ask4 == get_ipv4 /\ v4 = None
             n4   == IF ask4 THEN try_get_ip("ipv4", resp4[i]) ELSE v4
             ask6 == get_ipv6 /\ v6 = None
             n6   == IF ask6 THEN try_get_ip("ipv6", resp6[i]) ELSE v6
             reqs == requests
                       \o (IF ask4 THEN << <<"ipv4", PROVIDERS[i]>> >> ELSE << >>)
                       \o (IF ask6 THEN << <<"ipv6", PROVIDERS[i]>> >> ELSE << >>)
         IN  IF (get_ipv4 = (n4 # None)) /\ (get_ipv6 = (n6 # None))
             THEN [ipv4 |-> n4, ipv6 |-> n6, requests |-> reqs]
             ELSE get_ips_from(i + 1, get_ipv4, get_ipv6, resp4, resp6, n4, n6, reqs)

\* get_ips(get_ipv4, get_ipv6): always Ok((ipv4, ipv6))
get_ips(get_ipv4, get_ipv6, resp4, resp6) ==
    get_ips_from(1, get_ipv4, get_ipv6, resp4, resp6, None, None, << >>)

\* The answers an echo service gives over the IPv4 / IPv6 transport in a
\* poll cycle: a failed request, or a body with the address on its second line.
Failed == Response(FALSE, << >>)
Responses4 == {Failed} \cup {Response(TRUE, <<"not-an-ip", Ipv4ToString(a)>>) : a \in Addrs}
Responses6 == {Failed} \cup {Response(TRUE, <<"not-an-ip", Ipv6ToString(a)>>) : a \in Addrs}

\* What the PROVIDERS answer, one response each, to a family in a poll cycle.
\* Nothing is sent for a family that is not wanted; of the answer vectors that
\* differ only behind the first success, one is kept.
Answers(wanted, responses) ==
    IF wanted
    THEN {f \in [1..Len(PROVIDERS) -> responses] :
            \A i, j \in 1..Len(PROVIDERS) : (i < j /\ f[i].ok) => f[j] = Failed}
    ELSE {[i \in 1..Len(PROVIDERS) |-> Failed]}

(***************************************************************************)
(* src/main.rs: the reconciler.                                            *)
(***************************************************************************)
\* How the provider answers a write request: it carries the request out and
\* says so ("ok"), or the request fails and changes nothing ("rejected": a
\* transport error or the {id, message} error body).
WriteAnswers == {"ok", "rejected"}

\* How the provider answers the list request: Ok(records) with the name
\* filter applied ("filtered") or not ("unfiltered"), or Err ("failed").
ListAnswers == {"filtered", "unfiltered", "failed"}

\* Result<()> of create_record / update_record with the requests they sent
Done(ok, sent) == [ok |-> ok, sent |-> sent]

\* (mutant) create_record without the dry-run test
create_record_always(a, name, kind, data, ttl, answer) ==
    Done(answer = "ok", <<ApiClient_create_record(name, kind, data, ttl)>>)

\* create_record(client, args, name, kind, data, ttl)
create_record(a, name, kind, data, ttl, answer) ==
    IF a.dry_run
    THEN Done(TRUE, << >>)
    ELSE Done(answer = "ok", <<ApiClient_create_record(name, kind, data, ttl)>>)

\* (mutant) update_record with the dry-run test inverted
update_record_inverted(a, id, name, kind, data, ttl, answer) ==
    IF ~a.dry_run
    THEN Done(TRUE, << >>)
    ELSE Done(answer = "ok", <<ApiClient_update_record(id, name, kind, data, ttl)>>)

\* update_record(client, args, id, name, kind, data, ttl): the call passes
\* (id, name, kind, data, ttl) to ApiClient::update_record(id, kind, name, data, ttl)
update_record(a, id, name, kind, data, ttl, answer) ==
    IF a.dry_run
    THEN Done(TRUE, << >>)
    ELSE Done(answer = "ok", <<ApiClient_update_record(id, name, kind, data, ttl)>>)

\* name_filter of handle_record
name_filter(a) ==
    IF a.subdomain = "@" THEN Domain ELSE a.subdomain \o "." \o Domain

\* (mutant) handle_record without the local filter
filter_records_absent(a, listed) == listed

\* (mutant) the local filter keeping only the first record of the name
filter_records_first(a, listed) ==
    LET named == {r \in listed : r.name = a.subdomain}
    IN  IF named = {} THEN {}
        ELSE {CHOOSE r \in named : \A q \in named : r.id <= q.id}

\* the local filter of handle_record: .filter(|record| record.name == args.subdomain)
filter_records(a, listed) == {r \in listed : r.name = a.subdomain}

\* (mutant) no record counts as up to date
up_to_date_never(record, data, ttl) == FALSE

\* (mutant) the ttl compared as well
up_to_date_and_ttl(record, data, ttl) == record.data = data /\ record.ttl = ttl

\* the test of the single matching record, with data and ttl in scope:
\* record.data == data
up_to_date(record, data, ttl) == record.data = data

\* How handle_record ends, the requests it sent and the write the provider
\* carried out (a sequence of at most one request).
Handled(res, sent, applied) == [result |-> res, sent |-> sent, applied |-> applied]

\* the write requests among sent that the provider carried out
Applied(sent, answer) == IF answer = "ok" THEN sent ELSE << >>

\* (mutant) handle_record creating the record whenever none is up to date
handle_record_eager(a, kind, addr, records, list, answer) ==
    LET get     == ApiClient_get_records(PerPage, kind, name_filter(a))
        matches == {r \in ProviderList(records, get, list = "filtered") :
                      r.name = a.subdomain /\ r.data = addr}
    IN  IF list = "failed" THEN [result |-> "ErrList", sent |-> <<get>>, applied |-> << >>]
        ELSE IF matches # {}
        THEN [result |-> "Skip", sent |-> <<get>>, applied |-> << >>]
        ELSE LET create == ApiClient_create_record(a.subdomain, kind, addr, a.ttl)
             IN  [result  |-> IF answer = "ok" THEN "Created" ELSE "ErrCreate",
                  sent    |-> <<get, create>>,
                  applied |-> IF answer = "ok" THEN <<create>> ELSE << >>]

\* handle_record(args, kind, addr, client), the provider holding `records`,
\* answering the list request by `list` and a write request by `answer`.
\* Results: Skip / Created / Updated are the three ways to Ok(()), told apart
\* by the line logged; the Err* are the errors returned.
handle_record(a, kind, addr, records, list, answer) ==
    LET get     == ApiClient_get_records(PerPage, kind, name_filter(a))
        matches == filter_records(a, ProviderList(records, get, list = "filtered"))
        name    == a.subdomain
        data    == addr
        ttl     == a.ttl
    IN  IF list = "failed" THEN Handled("ErrList", <<get>>, << >>)
        ELSE IF Cardinality(matches) = 0
        THEN LET c == create_record(a, name, kind, data, ttl, answer)
             IN  Handled(IF c.ok THEN "Created" ELSE "ErrCreate",
                         <<get>> \o c.sent, Applied(c.sent, answer))
        ELSE IF Cardinality(matches) = 1
        THEN LET record == CHOOSE r \in matches : TRUE
             IN  IF up_to_date(record, data, ttl)
                 THEN Handled("Skip", <<get>>, << >>)
                 ELSE LET u == update_record(a, record.id, name, kind, data, ttl, answer)
                      IN  Handled(IF u.ok THEN "Updated" ELSE "ErrUpdate",
                                  <<get>> \o u.sent, Applied(u.sent, answer))
        ELSE Handled("ErrAmbiguous", <<get>>, << >>)

\* handle_a_record / handle_aaaa_record
handle_a_record(a, addr, records, list, answer) ==
    handle_record(a, "A", Ipv4ToString(addr), records, list, answer)
handle_aaaa_record(a, addr, records, list, answer) ==
    handle_record(a, "AAAA", Ipv6ToString(addr), records, list, answer)

OkResults == {"Skip", "Created", "Updated"}
ErrResults == {"ErrList", "ErrCreate", "ErrUpdate", "ErrAmbiguous"}

\* the provider's records after it carried out the requests of `applied`
RECURSIVE ProviderApplyAll(_, _)
ProviderApplyAll(records, applied) ==
    IF applied = << >> THEN records
    ELSE ProviderApplyAll(ProviderApply(records, Head(applied)), Tail(applied))

(***************************************************************************)
(* Initial state: the command line, the environment and the records the    *)
(* provider holds when the program starts.                                 *)
(***************************************************************************)
\* the values of struct Args the model explores
ArgsSet ==
    [dry_run : BOOLEAN, once : BOOLEAN, ipv4 : BOOLEAN, ipv6 : BOOLEAN,
     sleep_interval : {0, DefaultSleepInterval},
     ttl : {0, DefaultTtl, 2 * DefaultTtl},
     subdomain : Names]

\* The (name, kind, address) a record starts with, numbered 0..ShapeCount-1.
NameSeq == <<"@", "www">>
KindSeq == <<"A", "AAAA">>
ShapeCount == 4 * NumAddrs
ShapeRecord(id, i) ==
    LET kind == KindSeq[((i \div 2) % 2) + 1]
    IN  DomainRecord(id, NameSeq[(i % 2) + 1], AddrToString(kind, (i \div 4) + 1),
                     DefaultTtl, kind)

\* The record sets the provider can hold at the start: up to MaxRemote
\* records with ids 1..n (each set once: shapes in non-decreasing order).
InitRemotes ==
    UNION {
        { {ShapeRecord(j, f[j]) : j \in 1..n} :
            f \in {g \in [1..n -> 0..(ShapeCount - 1)] :
                      \A j \in 1..n : j < n => g[j] <= g[j + 1]} }
        : n \in 0..MaxRemote }

\* (mutant) main entering the loop without get_token()?
ConfigError_tokenless(a, tok) ==
    IF ~a.ipv4 /\ ~a.ipv6 THEN "At least one of -4 or -6 must be specified"
    ELSE IF a.ttl = 0 THEN "TTL must be greater than 0"
    ELSE IF a.sleep_interval = 0 THEN "Sleep interval must be greater than 0"
    ELSE "Ok"

\* main, up to the loop: the checks of the arguments and of the token
ConfigError(a, tok) ==
    IF ~a.ipv4 /\ ~a.ipv6 THEN "At least one of -4 or -6 must be specified"
    ELSE IF a.ttl = 0 THEN "TTL must be greater than 0"
    ELSE IF a.sleep_interval = 0 THEN "Sleep interval must be greater than 0"
    ELSE IF ~tok THEN "DIGITALOCEAN_TOKEN not set or invalid UTF-8"
    ELSE "Ok"

NoResult == [k \in Kinds |-> "NotInvoked"]
NoRecords == [k \in Kinds |-> {}]
NoAddrs == [k \in Kinds |-> None]

\* main's runs do not look at the echo services' answers one by one
NoEcho == [ipv4 |-> << >>, ipv6 |-> << >>]

InitArgs ==
    /\ args \in ArgsSet
    /\ token \in BOOLEAN
    /\ pc = "main"
    /\ last_ipv4 = None
    /\ last_ipv6 = None
    /\ ipv4 = None
    /\ ipv6 = None
    /\ calls = << >>
    /\ result = NoResult
    /\ pre = NoRecords
    /\ post = NoRecords
    /\ old = NoAddrs
    /\ prev = NoAddrs
    /\ error = "Ok"
    /\ cycle = 0
    /\ echo = NoEcho
    /\ asked = << >>

\* The record sets a continuous run is explored from: no record, one
\* record, or the same record twice, under the configured name.
LoopRemotes(a) ==
    {R \in InitRemotes :
        /\ Cardinality(R) <= 2
        /\ \A r \in R : r.name = a.subdomain
        /\ \A r1, r2 \in R : r1.kind = r2.kind /\ r1.data = r2.data}

\* Every command line, token or not, with the default ttl or none.
Init ==
    /\ InitArgs
    /\ args.ttl \in {0, DefaultTtl}
    /\ remote \in LoopRemotes(args)

\* Single-shot runs (--once) of a valid command line, from every record set.
InitOnce ==
    /\ InitArgs
    /\ args.once
    /\ ConfigError(args, token) = "Ok"
    /\ remote \in InitRemotes

(***************************************************************************)
(* src/main.rs: main and dyndns.                                           *)
(***************************************************************************)
Main ==
    /\ pc = "main"
    /\ error' = ConfigError(args, token)
    /\ pc' = IF error' = "Ok" THEN "dyndns" ELSE "exit_err"
    /\ UNCHANGED <<echo, asked, args, token, last_ipv4, last_ipv6, ipv4, ipv6, remote, calls,
                   result, pre, post, old, prev, cycle>>

\* dyndns, first part: get_ips and the two bail!s on a missing address
GetIps ==
    /\ pc = "dyndns"
    /\ \E resp4 \in Answers(args.ipv4, Responses4),
          resp6 \in Answers(args.ipv6, Responses6) :
          LET got == get_ips(args.ipv4, args.ipv6, resp4, resp6)
          IN  /\ ipv4' = got.ipv4
              /\ ipv6' = got.ipv6
              /\ error' = IF args.ipv4 /\ got.ipv4 = None THEN "No IPv4 address found"
                          ELSE IF args.ipv6 /\ got.ipv6 = None THEN "No IPv6 address found"
                          ELSE "Ok"
    /\ pc' = IF error' = "Ok" THEN "ipv4" ELSE "returned"
    /\ cycle' = cycle + 1
    /\ old' = [k \in Kinds |-> IF k = "A" THEN last_ipv4 ELSE last_ipv6]
    /\ UNCHANGED <<echo, asked, args, token, last_ipv4, last_ipv6, remote, calls, result, pre,
                   post, prev>>

\* the requests of one handle_record call, each with the kind of the call,
\* whether the provider answered it with success ("ok") or not, and the
\* records a list request was answered with
Tagged(kind, sent, list, answer, records) ==
    [i \in 1..Len(sent) |->
        [by |-> kind, req |-> sent[i],
         answer |-> IF sent[i].op = "GET"
                    THEN (IF list = "failed" THEN "failed" ELSE "ok")
                    ELSE answer,
         listed |-> IF sent[i].op = "GET" /\ list # "failed"
                    THEN ProviderList(records, sent[i], list = "filtered")
                    ELSE {}]]

\* (mutant) the condition without the comparison with last_ipvN
changed_always(enabled, addr, last) == enabled

\* the condition of both blocks of dyndns: args.ipvN && &ipvN != last_ipvN
changed(enabled, addr, last) == enabled /\ addr # last

\* (mutant) last_ipvN assigned whatever handle_x_record returned
new_last_always(res, addr, last) == addr

\* last_ipvN after handle_x_record(..).await.context(..)?; *last_ipvN = Some(*ipvN)
new_last(res, addr, last) == IF res \in OkResults THEN addr ELSE last

\* dyndns, the IPv4 block: if args.ipv4 && &ipv4 != last_ipv4 { ... }
HandleIpv4 ==
    /\ pc = "ipv4"
    /\ IF changed(args.ipv4, ipv4, last_ipv4)
       THEN IF ipv4 # None
            THEN \E list \in ListAnswers, answer \in WriteAnswers :
                   LET h == handle_a_record(args, ipv4[1], remote, list, answer)
                   IN  /\ calls' = calls \o Tagged("A", h.sent, list, answer, remote)
                       /\ remote' = ProviderApplyAll(remote, h.applied)
                       /\ result' = [result EXCEPT !["A"] = h.result]
                       /\ pre' = [pre EXCEPT !["A"] = remote]
                       /\ post' = [post EXCEPT !["A"] = remote']
                       /\ last_ipv4' = new_last(h.result, ipv4, last_ipv4)
                       /\ IF h.result \in OkResults
                          THEN /\ pc' = "ipv6"
                               /\ error' = error
                          ELSE /\ pc' = "returned"
                               /\ error' = "Failed to update or create A record"
            ELSE /\ pc' = "ipv6"
                 /\ UNCHANGED <<last_ipv4, remote, calls, result, pre, post, error>>
       ELSE /\ pc' = "ipv6"
            /\ UNCHANGED <<last_ipv4, remote, calls, result, pre, post, error>>
    /\ UNCHANGED <<echo, asked, args, token, last_ipv6, ipv4, ipv6, old, prev, cycle>>

\* dyndns, the IPv6 block: if args.ipv6 && &ipv6 != last_ipv6 { ... }; Ok(())
HandleIpv6 ==
    /\ pc = "ipv6"
    /\ IF changed(args.ipv6, ipv6, last_ipv6)
       THEN IF ipv6 # None
            THEN \E list \in ListAnswers, answer \in WriteAnswers :
                   LET h == handle_aaaa_record(args, ipv6[1], remote, list, answer)
                   IN  /\ calls' = calls \o Tagged("AAAA", h.sent, list, answer, remote)
                       /\ remote' = ProviderApplyAll(remote, h.applied)
                       /\ result' = [result EXCEPT !["AAAA"] = h.result]
                       /\ pre' = [pre EXCEPT !["AAAA"] = remote]
                       /\ post' = [post EXCEPT !["AAAA"] = remote']
                       /\ last_ipv6' = new_last(h.result, ipv6, last_ipv6)
                       /\ error' = IF h.result \in OkResults THEN error
                                   ELSE "Failed to update or create AAAA record"
            ELSE UNCHANGED <<last_ipv6, remote, calls, result, pre, post, error>>
       ELSE UNCHANGED <<last_ipv6, remote, calls, result, pre, post, error>>
    /\ pc' = "returned"
    /\ UNCHANGED <<echo, asked, args, token, last_ipv4, ipv4, ipv6, old, prev, cycle>>

\* (mutant) the loop body with dyndns(..).await? : an Err leaves main
loop_body_end_propagate(once, err) ==
    IF err # "Ok" THEN "exit_err" ELSE IF once THEN "exit_ok" ELSE "sleep"

\* (mutant) the loop body breaking only after a cycle that returned Ok
loop_body_end_retry(once, err) ==
    IF once /\ err = "Ok" THEN "exit_ok" ELSE "sleep"

\* The loop body of main after dyndns returned err ("Ok" or the error, which
\* is logged and dropped): if args.once { break } else { sleep(..).await }
loop_body_end(once, err) == IF once THEN "exit_ok" ELSE "sleep"

\* main, the loop body after dyndns returned: log the error, then break
\* (once) or go to sleep.  The cycle's locals end here.
LoopEnd ==
    /\ pc = "returned"
    /\ pc' = loop_body_end(args.once, error)
    /\ IF pc' # "sleep"
       THEN UNCHANGED <<ipv4, ipv6, calls, result, pre, post, old, prev, error>>
       ELSE /\ prev' = [k \in Kinds |-> IF k = "A" THEN ipv4 ELSE ipv6]
            /\ ipv4' = None
            /\ ipv6' = None
            /\ calls' = << >>
            /\ result' = NoResult
            /\ pre' = NoRecords
            /\ post' = NoRecords
            /\ old' = [k \in Kinds |-> IF k = "A" THEN last_ipv4 ELSE last_ipv6]
            /\ error' = "Ok"
    /\ UNCHANGED <<echo, asked, args, token, last_ipv4, last_ipv6, remote, cycle>>

\* sleep(sleep_interval).await, then the next iteration of the loop
Sleep ==
    /\ pc = "sleep"
    /\ cycle < MaxCycles
    /\ pc' = "dyndns"
    /\ UNCHANGED <<echo, asked, args, token, last_ipv4, last_ipv6, ipv4, ipv6, remote, calls,
                   result, pre, post, old, prev, error, cycle>>

Next == Main \/ GetIps \/ HandleIpv4 \/ HandleIpv6 \/ LoopEnd \/ Sleep

\* the program, single-shot or continuous
Spec == Init /\ [][Next]_vars

\* a single-shot run never reaches the sleep
NextOnce == Main \/ GetIps \/ HandleIpv4 \/ HandleIpv6 \/ LoopEnd

SpecOnce == InitOnce /\ [][NextOnce]_vars

(***************************************************************************)
(* src/ip.rs on its own: get_ips against every answer of the echo services.*)
(***************************************************************************)
\* the lines that spell an address of the family, and two lines that spell
\* none: no address at all, and an address of the other family
OwnLines(family) ==
    {IF family = "ipv4" THEN Ipv4ToString(a) ELSE Ipv6ToString(a) : a \in Addrs}
JunkLines(family) ==
    {"not-an-ip",
     IF family = "ipv4" THEN Ipv6ToString(NumAddrs) ELSE Ipv4ToString(NumAddrs)}

\* The bodies an echo service answers with: nothing, a line that is no
\* address, the address, the address behind such a line, two addresses.
EchoBodies(family) ==
    {<< >>}
    \cup {<<j>> : j \in JunkLines(family)}
    \cup {<<a>> : a \in OwnLines(family)}
    \cup {<<j, a>> : j \in JunkLines(family), a \in OwnLines(family)}
    \cup {ab \in OwnLines(family) \X OwnLines(family) : ab[1] # ab[2]}

EchoResponses(family) == {Failed} \cup {Response(TRUE, b) : b \in EchoBodies(family)}

\* What the PROVIDERS would answer to a family's requests, one response
\* each.  For a family that is not wanted the services all fail or all
\* answer the same address.
EchoAnswers(wanted, family) ==
    IF wanted
    THEN [1..Len(PROVIDERS) -> EchoResponses(family)]
    ELSE {[i \in 1..Len(PROVIDERS) |-> r] :
            r \in {Failed} \cup {Response(TRUE, <<a>>) : a \in OwnLines(family)}}

\* get_ips called with every pair of flags against every such answer
InitIp ==
    /\ args \in {a \in ArgsSet : ConfigError([a EXCEPT !.ipv4 = TRUE], TRUE) = "Ok"
                                  /\ ~a.dry_run /\ ~a.once
                                  /\ a.ttl = DefaultTtl /\ a.subdomain = "@"}
    /\ token = TRUE
    /\ pc = "get_ips"
    /\ echo \in {[ipv4 |-> r4, ipv6 |-> r6] :
                    r4 \in EchoAnswers(args.ipv4, "ipv4"),
                    r6 \in EchoAnswers(args.ipv6, "ipv6")}
    /\ asked = << >>
    /\ last_ipv4 = None
    /\ last_ipv6 = None
    /\ ipv4 = None
    /\ ipv6 = None
    /\ remote = {}
    /\ calls = << >>
    /\ result = NoResult
    /\ pre = NoRecords
    /\ post = NoRecords
    /\ old = NoAddrs
    /\ prev = NoAddrs
    /\ error = "Ok"
    /\ cycle = 0

\* let (ipv4, ipv6) = get_ips(args.ipv4, args.ipv6).await
Discover ==
    /\ pc = "get_ips"
    /\ LET got == get_ips(args.ipv4, args.ipv6, echo.ipv4, echo.ipv6)
       IN  /\ ipv4' = got.ipv4
           /\ ipv6' = got.ipv6
           /\ asked' = got.requests
    /\ pc' = "got"
    /\ UNCHANGED <<echo, args, token, last_ipv4, last_ipv6, remote, calls, result,
                   pre, post, old, prev, error, cycle>>

NextIp == Discover

SpecIp == InitIp /\ [][NextIp]_vars

(***************************************************************************)
(* Vocabulary of the properties.                                           *)
(***************************************************************************)
\* the flag, the discovered address and the remembered address of a family
Enabled(k) == IF k = "A" THEN args.ipv4 ELSE args.ipv6
Discovered(k) == IF k = "A" THEN ipv4 ELSE ipv6
LastSeen(k) == IF k = "A" THEN last_ipv4 ELSE last_ipv6
Other(k) == IF k = "A" THEN "AAAA" ELSE "A"

\* handle_record was called for the family in the current cycle
Invoked(k) == result[k] # "NotInvoked"

\* the data of the desired record of a family whose address was discovered
DesiredData(k) == AddrToString(k, Discovered(k)[1])

\* the records of R with the desired (name, kind)
Matching(R, k) == {r \in R : r.name = args.subdomain /\ r.kind = k}

\* the requests of the current cycle's handle_record call for a family
CallsBy(k, op) == {i \in 1..Len(calls) : calls[i].by = k /\ calls[i].req.op = op}

\* dyndns has returned from the current cycle
CycleOver == pc \in {"returned", "exit_ok"}

(***************************************************************************)
(* C1.  Within one poll cycle with both families enabled and both          *)
(* addresses discovered and changed, each family's reconciler is invoked   *)
(* whatever the outcome of the other family's reconciliation.              *)
(* The code returns from dyndns on the `?` of the A record's               *)
(* reconciliation, so this is violated.                                    *)
(***************************************************************************)
C1_BothFamiliesReconciled ==
    (/\ CycleOver
     /\ \A k \in Kinds : /\ Enabled(k)
                          /\ Discovered(k) # None
                          /\ Discovered(k) # old[k])
        => \A k \in Kinds : Invoked(k)

(***************************************************************************)
(* C2.  When an enabled family's address is absent after discovery, this   *)
(* is only a warning for that family: its LastSeenAddresses value is left  *)
(* untouched, the cycle does not fail, and the other enabled family is     *)
(* still reconciled if its discovered address differs from its last-seen   *)
(* value.  The code bails out of the cycle on the missing address, so this *)
(* is violated.                                                            *)
(***************************************************************************)
C2_AbsenceIsOnlyAWarning ==
    \A k \in Kinds :
        (CycleOver /\ Enabled(k) /\ Discovered(k) = None)
            => /\ LastSeen(k) = old[k]
               /\ (/\ Enabled(Other(k))
                   /\ Discovered(Other(k)) # None
                   /\ Discovered(Other(k)) # old[Other(k)])
                      => Invoked(Other(k))

(***************************************************************************)
(* C3.  The update request sent for the single matching record whose data  *)
(* differs carries the desired fields: name = the subdomain, type = the    *)
(* kind (A / AAAA), data = the discovered address, ttl = the configured    *)
(* ttl.  main.rs passes (name, kind) where ApiClient::update_record takes  *)
(* (kind, name), so the request's name and type are exchanged: violated.   *)
(***************************************************************************)
C3_UpdateCarriesDesiredFields ==
    \A i \in 1..Len(calls) :
        calls[i].req.op = "PUT"
            => /\ calls[i].req.name = args.subdomain
               /\ calls[i].req.type = calls[i].by
               /\ calls[i].req.data = DesiredData(calls[i].by)
               /\ calls[i].req.ttl = args.ttl

\* the list request of the family's handle_record call was answered with records
ListOk(k) == \E i \in CallsBy(k, "GET") : calls[i].answer = "ok"

\* the family's handle_record call sent no write request and the provider's
\* records are as they were when it was called
NoWrite(k) ==
    /\ CallsBy(k, "POST") = {}
    /\ CallsBy(k, "PUT") = {}
    /\ post[k] = pre[k]

(***************************************************************************)
(* C4.  Not in dry-run: when the provider holds exactly one record with    *)
(* the desired (name, kind) and its data differs from the desired data,    *)
(* handle_record (its list request answered) sends exactly one update      *)
(* request, addressed by that record's id, and no create request; it       *)
(* returns Ok (Updated) when the provider accepts the update and the error *)
(* otherwise.                                                              *)
(***************************************************************************)
C4_Case(k) ==
    /\ Invoked(k)
    /\ ~args.dry_run
    /\ ListOk(k)
    /\ Cardinality(Matching(pre[k], k)) = 1
    /\ \A r \in Matching(pre[k], k) : r.data # DesiredData(k)

C4_OneDifferingMatchIsUpdated ==
    \A k \in Kinds :
        C4_Case(k)
            => /\ Cardinality(CallsBy(k, "PUT")) = 1
               /\ CallsBy(k, "POST") = {}
               /\ \A i \in CallsBy(k, "PUT") :
                     /\ \A r \in Matching(pre[k], k) : calls[i].req.id = r.id
                     /\ result[k] = (IF calls[i].answer = "ok" THEN "Updated" ELSE "ErrUpdate")

C4_Witness == \E k \in Kinds : C4_Case(k) /\ result[k] = "Updated"

(***************************************************************************)
(* C5.  Not in dry-run: when the provider holds no record with the desired *)
(* (name, kind), handle_record (its list request answered) sends exactly   *)
(* one create request carrying the desired name, kind, data and ttl, and   *)
(* no update request; it returns Ok (Created) when the provider accepts    *)
(* the create and the error otherwise.                                     *)
(***************************************************************************)
C5_Case(k) ==
    /\ Invoked(k)
    /\ ~args.dry_run
    /\ ListOk(k)
    /\ Matching(pre[k], k) = {}

C5_NoMatchIsCreated ==
    \A k \in Kinds :
        C5_Case(k)
            => /\ Cardinality(CallsBy(k, "POST")) = 1
               /\ CallsBy(k, "PUT") = {}
               /\ \A i \in CallsBy(k, "POST") :
                     /\ calls[i].req.name = args.subdomain
                     /\ calls[i].req.type = k
                     /\ calls[i].req.data = DesiredData(k)
                     /\ calls[i].req.ttl = args.ttl
                     /\ result[k] = (IF calls[i].answer = "ok" THEN "Created" ELSE "ErrCreate")

C5_Witness == \E k \in Kinds : C5_Case(k) /\ result[k] = "Created"

(***************************************************************************)
(* C6.  When the provider holds exactly one record with the desired        *)
(* (name, kind) and its data equals the desired data, handle_record (its   *)
(* list request answered) returns Ok (Skip) and sends neither a create nor *)
(* an update request.                                                      *)
(***************************************************************************)
C6_Case(k) ==
    /\ Invoked(k)
    /\ ListOk(k)
    /\ Cardinality(Matching(pre[k], k)) = 1
    /\ \A r \in Matching(pre[k], k) : r.data = DesiredData(k)

C6_EqualMatchIsSkipped ==
    \A k \in Kinds : C6_Case(k) => (result[k] = "Skip" /\ NoWrite(k))

C6_Witness == \E k \in Kinds : C6_Case(k) /\ result[k] = "Skip"

(***************************************************************************)
(* C7.  When the provider holds two or more records with the desired       *)
(* (name, kind), handle_record sends no create and no update request and   *)
(* returns an error (the ambiguity error once the list request was         *)
(* answered); the provider's records are unchanged.                        *)
(***************************************************************************)
C7_Case(k) ==
    /\ Invoked(k)
    /\ Cardinality(Matching(pre[k], k)) >= 2

C7_AmbiguityFailsWithoutWrite ==
    \A k \in Kinds :
        C7_Case(k)
            => /\ result[k] \in ErrResults
               /\ ListOk(k) => result[k] = "ErrAmbiguous"
               /\ NoWrite(k)

C7_Witness == \E k \in Kinds : C7_Case(k) /\ result[k] = "ErrAmbiguous"

(***************************************************************************)
(* C8.  In dry-run mode no create and no update request is ever sent and   *)
(* the provider's records never change, over any number of poll cycles,    *)
(* while every handle_record call ends as the live call ends on the same   *)
(* records when the provider accepts its write: Created, Updated, Skip,    *)
(* or the ambiguity (or list) error.                                       *)
(***************************************************************************)
\* how the live handle_record ends on the records the family's call found
C8_LiveResult(k) ==
    handle_record([args EXCEPT !.dry_run = FALSE], k, DesiredData(k), pre[k],
                  IF ListOk(k) THEN "filtered" ELSE "failed", "ok").result

C8_DryCycle ==
    /\ \A i \in 1..Len(calls) : calls[i].req.op = "GET"
    /\ \A k \in Kinds : Invoked(k) => (post[k] = pre[k] /\ result[k] = C8_LiveResult(k))

C8_DryRunIsLiveWithoutWrites ==
    [][args.dry_run => (remote' = remote /\ C8_DryCycle')]_vars

C8_Witness ==
    /\ args.dry_run
    /\ cycle >= 2
    /\ \E k \in Kinds : result[k] \in {"Created", "Updated"}

(***************************************************************************)
(* C9.  As claimed: when a family's discovered address is the one          *)
(* discovered in the previous cycle, no reconciliation call (no list,      *)
(* create or update request) is made for it in this cycle.  Stated for the *)
(* runs with that family alone enabled, where no other family's outcome    *)
(* comes into it.  Violated: the comparison is with last_ipvN, which a     *)
(* failed reconciliation leaves behind, so the next cycle tries again.     *)
(***************************************************************************)
\* the family's address was discovered, and was the same in the previous cycle
C9_Unchanged(k) ==
    /\ Enabled(k)
    /\ Discovered(k) # None
    /\ Discovered(k) = prev[k]

C9_NoCall(k) == ~Invoked(k) /\ \A i \in 1..Len(calls) : calls[i].by # k

C10_LastSeenFollowsSuccess ==
    \A k \in Kinds :
        LastSeen(k) = IF result[k] \in OkResults THEN Discovered(k) ELSE old[k]

C10_Witness ==
    \E k \in Kinds :
        /\ result[k] \in OkResults
        /\ old[k] # None
        /\ LastSeen(k) # old[k]
        /\ LastSeen(k) = Discovered(k)

(***************************************************************************)
(* C11.  In continuous mode (--once not given) no error of a cycle ends    *)
(* the loop: once the loop is entered the process never exits, and after   *)
(* every cycle, whether dyndns returned Ok or an error (a missing address, *)
(* a failed list / create / update request, ambiguous records), the one    *)
(* step the loop can take, and can always take, is to go to sleep, and the *)
(* one step after the sleep is the start of the next cycle.                *)
(***************************************************************************)
C11_CycleErrorsNeverEndTheLoop ==
    /\ []((~args.once /\ cycle >= 1) => pc \notin {"exit_ok", "exit_err"})
    /\ []((~args.once /\ pc = "returned") => ENABLED LoopEnd)
    /\ [][(~args.once /\ pc = "returned") => pc' = "sleep"]_vars
    /\ []((~args.once /\ pc = "sleep" /\ cycle < MaxCycles) => ENABLED Sleep)
    /\ [][(~args.once /\ pc = "sleep") => pc' = "dyndns"]_vars
    /\ []((~args.once /\ pc = "dyndns") => ENABLED GetIps)

\* a second cycle has started after a first one in which the reconciliation
\* of a discovered address failed
C11_Witness ==
    /\ ~args.once
    /\ cycle = 2
    /\ pc \in {"ipv4", "returned"}
    /\ \E k \in Kinds : Enabled(k) /\ prev[k] # None /\ old[k] = None

(***************************************************************************)
(* C12.  In single-shot mode (--once) the loop runs exactly one cycle and  *)
(* then main returns Ok, whether dyndns returned Ok or an error: the one   *)
(* step after the cycle is the break, after which nothing runs; the        *)
(* process never sleeps and never starts a second cycle.                   *)
(***************************************************************************)
C12_OnceRunsOneCycle ==
    /\ [](args.once => (cycle <= 1 /\ pc # "sleep"))
    /\ []((args.once /\ pc = "returned") => (cycle = 1 /\ ENABLED LoopEnd))
    /\ [][(args.once /\ pc = "returned") => pc' = "exit_ok"]_vars
    /\ []((args.once /\ pc = "exit_ok") => ~ENABLED Next)

\* a single-shot run has ended after a cycle that failed
C12_Witness ==
    /\ args.once
    /\ pc = "exit_ok"
    /\ cycle = 1
    /\ error # "Ok"

(***************************************************************************)
(* C13.  get_ips(get_ipv4, get_ipv6) always returns Ok((ipv4, ipv6)): for  *)
(* a wanted family the address is the one spelled by the first line that   *)
(* spells an address of the family in the answer of the first of the       *)
(* PROVIDERS, in their order, whose answer holds such a line, and None if  *)
(* no answer holds one, even when every request fails; for a family that   *)
(* is not wanted no request is sent and the address is None.               *)
(***************************************************************************)
Families == {"ipv4", "ipv6"}
Wanted(family) == IF family = "ipv4" THEN args.ipv4 ELSE args.ipv6
Got(family) == IF family = "ipv4" THEN ipv4 ELSE ipv6

\* the places of the lines of a body that spell an address of the family
C13_Spelling(family, body) == {n \in 1..Len(body) : body[n] \in OwnLines(family)}

\* the PROVIDERS whose answer to the family came and holds such a line
C13_Hits(family) ==
    {i \in 1..Len(PROVIDERS) :
        echo[family][i].ok /\ C13_Spelling(family, echo[family][i].body) # {}}

\* the address the claim names
C13_Expected(family) ==
    IF C13_Hits(family) = {} THEN None
    ELSE LET i    == CHOOSE h \in C13_Hits(family) : \A g \in C13_Hits(family) : h <= g
             body == echo[family][i].body
             n    == CHOOSE m \in C13_Spelling(family, body) :
                        \A l \in C13_Spelling(family, body) : m <= l
         IN  Some(CHOOSE a \in Addrs :
                    body[n] = (IF family = "ipv4" THEN Ipv4ToString(a) ELSE Ipv6ToString(a)))

C13_DiscoveryTakesFirstAddress ==
    pc = "got" =>
        \A family \in Families :
            IF Wanted(family)
            THEN Got(family) = C13_Expected(family)
            ELSE /\ Got(family) = None
                 /\ \A n \in 1..Len(asked) : asked[n][1] # family

\* the first provider answers without an address, the second with two, and
\* the first of the two is returned
C13_Witness ==
    /\ pc = "got"
    /\ \E family \in Families :
          /\ Wanted(family)
          /\ echo[family][1].ok
          /\ C13_Hits(family) = {Len(PROVIDERS)}
          /\ Cardinality(C13_Spelling(family, echo[family][Len(PROVIDERS)].body)) > 1
          /\ Got(family) # None

(***************************************************************************)
(* C16.  get_ips stops as soon as every wanted family has an address: a    *)
(* request for a family is sent to a provider only if no earlier provider  *)
(* answered that family's address, no provider is contacted once all       *)
(* wanted families have theirs, and no provider is asked twice for a       *)
(* family in one call.                                                     *)
(***************************************************************************)
ProviderIndex(provider) == CHOOSE i \in 1..Len(PROVIDERS) : PROVIDERS[i] = provider

\* every wanted family has an answer with its address from a provider before i
C16_AllFoundBefore(i) ==
    \A family \in Families : Wanted(family) => \E h \in C13_Hits(family) : h < i

C16_DiscoveryStopsEarly ==
    pc = "got" =>
        /\ \A n \in 1..Len(asked) :
              /\ Wanted(asked[n][1])
              /\ \A h \in C13_Hits(asked[n][1]) : ProviderIndex(asked[n][2]) <= h
              /\ ~C16_AllFoundBefore(ProviderIndex(asked[n][2]))
        /\ \A n, m \in 1..Len(asked) : asked[n] = asked[m] => n = m

\* the first provider answered one family's address only: the second is
\* asked for the other family alone, though it would answer both
C16_Witness ==
    /\ pc = "got"
    /\ args.ipv4 /\ args.ipv6
    /\ C13_Hits("ipv4") = 1..Len(PROVIDERS)
    /\ C13_Hits("ipv6") = {Len(PROVIDERS)}
    /\ asked = << <<"ipv4", PROVIDERS[1]>>, <<"ipv6", PROVIDERS[1]>>,
                  <<"ipv6", PROVIDERS[Len(PROVIDERS)]>> >>

(***************************************************************************)
(* C14.  Configuration errors are fatal before the loop: with no address   *)
(* family enabled, or ttl 0, or sleep interval 0, or no token, main exits  *)
(* with an error and no poll cycle runs: get_ips is never called and no    *)
(* list / create / update request is sent.                                 *)
(***************************************************************************)
C14_Misconfigured ==
    \/ ~args.ipv4 /\ ~args.ipv6
    \/ args.ttl = 0
    \/ args.sleep_interval = 0
    \/ ~token

C14_ConfigErrorsAreFatal ==
    C14_Misconfigured =>
        /\ pc \in {"main", "exit_err"}
        /\ pc = "main" => ENABLED Main
        /\ pc = "exit_err" => error # "Ok"
        /\ cycle = 0
        /\ calls = << >>
        /\ ipv4 = None /\ ipv6 = None
        /\ \A k \in Kinds : ~Invoked(k)

\* main has exited on the last of its checks, the token
C14_Witness ==
    /\ pc = "exit_err"
    /\ ~token
    /\ args.ipv4 \/ args.ipv6
    /\ args.ttl # 0
    /\ args.sleep_interval # 0

(***************************************************************************)
(* C15.  handle_record's zero / one / many decision counts only the listed *)
(* records whose name equals the desired name (args.subdomain, "@" for the *)
(* apex): a record the list request returned under another name never      *)
(* causes a Skip, an update of that record, or the ambiguity error.        *)
(***************************************************************************)
\* the records the family's list request was answered with, and those of
\* them under the desired name and under another name
C15_Listed(k) == UNION {calls[i].listed : i \in CallsBy(k, "GET")}
C15_Named(k) == {r \in C15_Listed(k) : r.name = args.subdomain}
C15_OtherNames(k) == {r \in C15_Listed(k) : r.name # args.subdomain}

C15_OnlyExactNamesCount ==
    \A k \in Kinds :
        (Invoked(k) /\ ListOk(k))
            => /\ result[k] = "Skip"
                    => \E r \in C15_Named(k) : r.data = DesiredData(k)
               /\ \A i \in CallsBy(k, "PUT") :
                     /\ calls[i].req.id \in {r.id : r \in C15_Named(k)}
                     /\ calls[i].req.id \notin {r.id : r \in C15_OtherNames(k)}
               /\ result[k] = "ErrAmbiguous" => Cardinality(C15_Named(k)) >= 2
               /\ Cardinality(C15_Named(k)) = 0 => result[k] \in {"Created", "ErrCreate"}
               /\ Cardinality(C15_Named(k)) = 1
                    => result[k] \in {"Skip", "Updated", "ErrUpdate"}
               /\ Cardinality(C15_Named(k)) >= 2 => result[k] = "ErrAmbiguous"

\* the list request returned a record of another name that holds the
\* desired data, and none of the desired name: the record is created
C15_Witness ==
    \E k \in Kinds :
        /\ Invoked(k)
        /\ C15_Named(k) = {}
        /\ \E r \in C15_OtherNames(k) : r.data = DesiredData(k)
        /\ result[k] = "Created"

(***************************************************************************)
(* C19.  The ttl is not reconciled on its own: when the single record with *)
(* the desired (name, kind) holds the desired data but a ttl other than    *)
(* args.ttl, handle_record (its list request answered) returns Ok (Skip)   *)
(* and sends no update, and the record's ttl stays what it was.            *)
(***************************************************************************)
C19_Case(k) ==
    /\ Invoked(k)
    /\ ListOk(k)
    /\ Cardinality(Matching(pre[k], k)) = 1
    /\ \A r \in Matching(pre[k], k) : r.data = DesiredData(k) /\ r.ttl # args.ttl

C19_TtlAloneIsNotReconciled ==
    \A k \in Kinds :
        C19_Case(k)
            => /\ result[k] = "Skip"
               /\ CallsBy(k, "PUT") = {}
               /\ CallsBy(k, "POST") = {}
               /\ Matching(post[k], k) = Matching(pre[k], k)
               /\ \A r \in Matching(remote, k) : r.ttl # args.ttl

C19_Witness ==
    \E k \in Kinds :
        /\ C19_Case(k)
        /\ ~args.dry_run
        /\ pc = "exit_ok"
        /\ \E r \in Matching(remote, k) : r.ttl = DefaultTtl /\ args.ttl > DefaultTtl

(***************************************************************************)
(* C18.  No duplicates are manufactured: the program being the only        *)
(* writer, a poll cycle never takes the provider from at most one record   *)
(* of an enabled family's (name, kind) to more than one, whether discovery *)
(* or provider requests fail or not; and a create request is only sent by  *)
(* a handle_record call whose own list request was answered with no record *)
(* of the desired name.                                                    *)
(***************************************************************************)
C18_AtMostOne(R, k) == Cardinality(Matching(R, k)) <= 1

C18_CreateOnlyAfterEmptyList ==
    \A k \in Kinds :
        CallsBy(k, "POST") # {}
            => /\ ListOk(k)
               /\ C15_Named(k) = {}
               /\ Matching(pre[k], k) = {}

C18_NoDuplicatesAreManufactured ==
    /\ [][\A k \in Kinds :
            (Enabled(k) /\ C18_AtMostOne(remote, k)) => C18_AtMostOne(remote', k)]_vars
    /\ []C18_CreateOnlyAfterEmptyList

\* in the second cycle the address has changed and the record the first
\* cycle created is the one record of its (name, kind)
C18_Witness ==
    /\ cycle >= 2
    /\ ~args.dry_run
    /\ \E k \in Kinds :
          /\ Invoked(k)
          /\ old[k] # None
          /\ Cardinality(Matching(pre[k], k)) = 1
          /\ C18_AtMostOne(remote, k)

(***************************************************************************)
(* C17.  Convergence by retry: in a continuous run, not dry-run, in which  *)
(* discovery keeps returning the same address a for an enabled family, the *)
(* provider's requests come to succeed, nobody else writes and there is at *)
(* most one record of the (name, kind), eventually and from then on the    *)
(* provider holds exactly one record of the desired name and kind, its     *)
(* data is a, last_ipvN is a, and no write is sent.                        *)
(* The run settles where last_ipvN = a and a was discovered: while a is    *)
(* discovered again dyndns makes no call for the family, so the provider's *)
(* records stay as they are.  That state is reached only through an Ok of  *)
(* handle_record, hence only from at most one matching record and after    *)
(* the provider's requests succeeded.  So the claim holds exactly if the   *)
(* provider holds the record whenever the run has settled.  Violated: the  *)
(* update request that succeeded carried name and type exchanged (C3), and *)
(* the run settles with no record of the desired name and kind.            *)
(***************************************************************************)
\* A cycle has ended in which the family's address was discovered and is
\* the one remembered: reconciliation has succeeded for it and rests until
\* the address changes.
C17_Settled(k) ==
    /\ ~args.once
    /\ ~args.dry_run
    /\ Enabled(k)
    /\ pc = "sleep"
    /\ prev[k] # None
    /\ LastSeen(k) = prev[k]

C17_Converged(k) ==
    /\ Cardinality(Matching(remote, k)) = 1
    /\ \A r \in Matching(remote, k) : r.data = AddrToString(k, LastSeen(k)[1])

C17_ConvergesByRetry ==
    \A k \in Kinds : C17_Settled(k) => C17_Converged(k)

====
